---- MODULE Spec2Model ----
(***************************************************************************)
(* Model of packages/http/lib/index.js (lace-http): the request pipeline   *)
(* serve(handler) -> listen(port) builds from a Node http server and rxjs. *)
(*                                                                         *)
(* JavaScript values are records tagged by t (the class of the value).     *)
(* Each request owns one response handle (Node's ServerResponse), modelled *)
(* by the fields the pipeline touches and the list of calls the pipeline   *)
(* made on it.  The handler is the environment: each accepted request      *)
(* draws the handler's outcome from HandlerOutcomes.                       *)
(*                                                                         *)
(* Library behaviour the code relies on (Node >= 7, rxjs 6):               *)
(*  - setHeader after the headers were sent throws ERR_HTTP_HEADERS_SENT;  *)
(*  - res.end on a finished response does nothing;                         *)
(*  - Buffer.byteLength of a non-string, non-buffer throws TypeError;      *)
(*  - JSON.stringify of a circular structure throws TypeError;             *)
(*  - an exception thrown by a subscriber's next callback unsubscribes     *)
(*    that subscriber and is rethrown on a timer (hostReportError), where  *)
(*    nothing catches it: an uncaught exception of the process, which ends *)
(*    it unless the host installed a handler of its own.                   *)
(***************************************************************************)
EXTENDS Integers, Sequences, FiniteSets, TLC

\* Number of requests the server accepts in a run.
MaxReq == 2
\* Most values one handler sequence emits.
MaxSeq == 2
\* Most observers that subscribe to the pipeline handle listen returns.
MaxObs == 1

Requests == 1..MaxReq

VARIABLES
    DEV,         \* NODE_ENV === 'development', fixed at module load
    server,      \* "new" | "listening" | "failed" | "closed"
    servers,     \* http servers created so far
    errored,     \* the subject connected by listen received a terminal error
    observers,   \* external observers subscribed to the pipeline handle
    lastHeard,   \* external observers the latest triple was passed to
    termHeard,   \* external observers that received complete or error
    late,        \* per request: a triple of it was passed on after the
                 \* server closed
    accepted,    \* number of Request Events the server has emitted
    outcome,     \* per request: what the handler did when invoked
    inner,       \* per request: "none" | "open" | "done", the inner sequence
    emitted,     \* per request: values the handler's sequence has emitted
    triples,     \* per request: triples the pipeline handle has emitted for it
    res,         \* per request: the response handle
    errlog,      \* per request: console.error entries written for it
    subscribed,  \* the subscriber installed by listen is still subscribed
    uncaught,    \* exceptions raised in the host with nothing to catch them
    completed    \* the pipeline handle has completed

vars == <<DEV, server, servers, errored, observers, lastHeard, termHeard,
          late, accepted, outcome, inner, emitted, triples, res,
          errlog, subscribed, uncaught, completed>>

-----------------------------------------------------------------------------
(* JavaScript values *)

Undefined == [t |-> "undefined"]
Null == [t |-> "null"]
Num(n) == [t |-> "number", n |-> n]
Bool(b) == [t |-> "boolean", b |-> b]
Str(s) == [t |-> "string", s |-> s]
\* the literal {a: 1}
PlainObject == [t |-> "Object"]
\* an object that refers to itself
Circular == [t |-> "Circular"]
Buf(s) == [t |-> "Buffer", s |-> s]
ReadableStream(s) == [t |-> "Stream", s |-> s]
\* a promise and how it settles
PromiseOf(state, v) == [t |-> "Promise", state |-> state, value |-> v]
PlainError(m) == [t |-> "Error", message |-> m, stack |-> "Error: " \o m]

Truthy(v) ==
    CASE v.t = "undefined" -> FALSE
      [] v.t = "null" -> FALSE
      [] v.t = "number" -> v.n # 0
      [] v.t = "boolean" -> v.b
      [] v.t = "string" -> v.s # ""
      [] OTHER -> TRUE

TypeOf(v) ==
    CASE v.t = "undefined" -> "undefined"
      [] v.t = "number" -> "number"
      [] v.t = "boolean" -> "boolean"
      [] v.t = "string" -> "string"
      [] OTHER -> "object"

\* String(message) as the Error constructor applies it; undefined gives ''.
ToMessage(m) ==
    CASE m.t = "string" -> m.s
      [] m.t = "undefined" -> ""
      [] m.t = "null" -> "null"
      [] OTHER -> "[object Object]"

-----------------------------------------------------------------------------
(* Descriptors *)

\* A headers object: its own keys in insertion order, as <<name, value>> pairs.
\* The default of send, [], has no keys either.
NoHeaders == << >>

send(data, statusCode, headers) ==
    [t |-> "Response",
     data |-> data,
     statusCode |-> IF statusCode = Undefined THEN Num(200) ELSE statusCode,
     headers |-> headers]

ResponseError(code, message, originalError) ==
    [t |-> "ResponseError",
     message |-> ToMessage(message),
     statusCode |-> code,
     originalError |-> originalError,
     stack |-> "Error: " \o ToMessage(message)]

createError(code, message, originalError) ==
    ResponseError(code, message, originalError)

-----------------------------------------------------------------------------
(* The response handle (http.ServerResponse) *)

HeaderNames == {"Content-Type", "Content-Length", "X-Custom"}

\* A fresh handle: Node's default statusCode is 200 and no header is set.
NewResponse ==
    [statusCode |-> Num(200),
     headers |-> [h \in HeaderNames |-> Undefined],
     headersSent |-> FALSE,
     finished |-> FALSE,
     body |-> "",
     pipe |-> Undefined,
     calls |-> << >>]

\* The handle after the handler itself called res.end("manual").
ManualBody == "manual"
HandlerEnded(r) ==
    [r EXCEPT !.headersSent = TRUE, !.finished = TRUE, !.body = ManualBody]

\* A call in progress: the handle so far and whether an exception is pending.
Running(r) == [res |-> r, threw |-> FALSE]
Throw(x) == [x EXCEPT !.threw = TRUE]
Called(x, name) == [x EXCEPT !.res.calls = Append(@, name)]

\* res.statusCode = statusCode
SetStatusCode(x, code) ==
    IF x.threw THEN x
    ELSE [Called(x, "statusCode") EXCEPT !.res.statusCode = code]

\* res.getHeader(name): undefined when the header is not set
GetHeader(r, name) == r.headers[name]

\* res.setHeader(name, value): throws once the headers were sent
SetHeader(x, name, value) ==
    IF x.threw THEN x
    ELSE IF x.res.headersSent THEN Throw(Called(x, "setHeader"))
    ELSE [Called(x, "setHeader") EXCEPT !.res.headers[name] = value]

\* res.end(chunk): sends the headers and the chunk; nothing on a finished handle
End(x, chunk) ==
    IF x.threw THEN x
    ELSE IF x.res.finished THEN Called(x, "end")
    ELSE [Called(x, "end") EXCEPT !.res.headersSent = TRUE,
                                  !.res.finished = TRUE,
                                  !.res.body = @ \o chunk]

\* data.pipe(res): the stream writes to the handle later (PipeFlush)
Pipe(x, stream) ==
    IF x.threw THEN x
    ELSE [Called(x, "pipe") EXCEPT !.res.pipe = stream]

-----------------------------------------------------------------------------
(* Serialization *)

DigitStr(d) ==
    CASE d = 0 -> "0" [] d = 1 -> "1" [] d = 2 -> "2" [] d = 3 -> "3"
      [] d = 4 -> "4" [] d = 5 -> "5" [] d = 6 -> "6" [] d = 7 -> "7"
      [] d = 8 -> "8" [] d = 9 -> "9"

RECURSIVE NatToStr(_)
NatToStr(n) ==
    IF n < 10 THEN DigitStr(n) ELSE NatToStr(n \div 10) \o DigitStr(n % 10)

\* JSON.stringify(data) / JSON.stringify(data, null, 2): the text, or a throw.
\* A promise and an Error have no enumerable own property.
JSONStringify(v, dev) ==
    CASE v.t = "number" -> [ok |-> TRUE, s |-> NatToStr(v.n)]
      [] v.t = "Object" ->
            [ok |-> TRUE,
             s |-> IF dev THEN "{\n  \"a\": 1\n}" ELSE "{\"a\":1}"]
      [] v.t = "Promise" -> [ok |-> TRUE, s |-> "{}"]
      [] v.t = "Error" -> [ok |-> TRUE, s |-> "{}"]
      [] v.t = "Circular" -> [ok |-> FALSE, s |-> ""]

\* Buffer.byteLength(str) of the (ASCII) strings of the model
ByteLength(s) == Len(s)

isResponseObject(o) == o.t = "Response"

\* o[IS_RESPONSE] cannot be read from null or undefined
ThrowsOnRead(o) == o.t \in {"null", "undefined"}

prepareResponse(o) ==
    IF isResponseObject(o) THEN o
    ELSE [t |-> "Response", data |-> o, statusCode |-> Num(200),
          headers |-> NoHeaders]

\* Object.keys(headers).forEach(header => res.setHeader(header, headers[header]))
RECURSIVE SetHeaders(_, _)
SetHeaders(x, hs) ==
    IF hs = << >> THEN x
    ELSE SetHeaders(SetHeader(x, hs[1][1], hs[1][2]), Tail(hs))

\* Mutant: the type's Content-Type is set whatever the handle already has.
DefaultContentTypeAlways(x, ct) == SetHeader(x, "Content-Type", Str(ct))

\* if (!res.getHeader('Content-Type')) res.setHeader('Content-Type', ct)
DefaultContentType(x, ct) ==
    IF x.threw THEN x
    ELSE IF ~Truthy(GetHeader(x.res, "Content-Type"))
         THEN SetHeader(x, "Content-Type", Str(ct))
         ELSE x

\* res.setHeader('Content-Length', Buffer.byteLength(str)); res.end(str)
EndWithLength(x, str) ==
    IF x.threw THEN x
    ELSE IF str.t # "string" THEN Throw(x)
    ELSE End(SetHeader(x, "Content-Length", Num(ByteLength(str.s))), str.s)

sendResponse(r, response, dev) ==
    LET data == response.data
        x0 == SetStatusCode(Running(r), response.statusCode)
        x1 == SetHeaders(x0, response.headers)
    IN  IF data = Null THEN End(x0, "")
        ELSE IF data.t = "Buffer" THEN
            End(SetHeader(DefaultContentType(x1, "application/octet-stream"),
                          "Content-Length", Num(Len(data.s))),
                data.s)
        ELSE IF data.t = "Stream" THEN
            Pipe(DefaultContentType(x1, "application/octet-stream"), data)
        ELSE IF TypeOf(data) \in {"object", "number"} THEN
            LET j == JSONStringify(data, dev)
            IN  IF x1.threw THEN x1
                ELSE IF ~j.ok THEN Throw(x1)
                ELSE EndWithLength(
                         DefaultContentType(x1, "application/json; charset=utf-8"),
                         Str(j.s))
        ELSE EndWithLength(x1, data)

-----------------------------------------------------------------------------
(* Error mapping *)

InternalServerError == "Internal Server Error"

\* Mutant: every failure is wrapped, an Error Descriptor too.
ErrorOfAlwaysWrapped(e) == createError(Num(500), Str(InternalServerError), e)

\* The descriptor the failure is mapped to (lines 98-101).
ErrorOf(e) ==
    IF e.t = "ResponseError" THEN e
    ELSE createError(Num(500), Str(InternalServerError), e)

\* What console.error receives (line 103); stack is undefined on a non-error.
StackOf(v) == IF v.t \in {"Error", "ResponseError"} THEN Str(v.stack) ELSE Undefined
LoggedFor(e) ==
    LET error == ErrorOf(e)
    IN  IF Truthy(error.originalError) THEN StackOf(error.originalError)
        ELSE StackOf(error)

\* Mutant: the message of the original cause is what is sent.
prepareErrorResponseLeaky(e) ==
    LET error == ErrorOf(e)
        cause == error.originalError
    IN  send(Str(IF cause.t = "Error" THEN cause.message ELSE error.message),
             error.statusCode, NoHeaders)

prepareErrorResponse(e) ==
    LET error == ErrorOf(e)
    IN  send(Str(error.message), error.statusCode, NoHeaders)

-----------------------------------------------------------------------------
(* The handler, as the environment *)

\* Values a handler returns that are not Observables.
ReturnValues ==
    { Undefined, Null, Num(0), Bool(FALSE), Str(""), Str("hi"),
      PlainObject, Circular, Buf("raw"), ReadableStream("hello"),
      PromiseOf("fulfilled", Str("hi")),
      PromiseOf("rejected", PlainError("boom")),
      send(Null, Num(404), << <<"X-Custom", Str("1")>> >>),
      send(Str("hi"), Num(404), << <<"Content-Type", Str("text/plain")>> >>),
      send(PlainObject, Undefined, NoHeaders),
      send(Null, Undefined, NoHeaders),
      send(PlainObject, Num(201), << <<"Content-Type", Str("text/plain")>>,
                                     <<"Content-Length", Str("99")>>,
                                     <<"X-Custom", Str("1")>> >>),
      send(Buf("raw"), Undefined, << <<"Content-Type", Str("")>> >>) }

\* Values a handler throws.
ThrownValues ==
    { PlainError("boom"), PlainError("db down"), Str("boom"),
      Null, Undefined, Num(0), Str(""),
      createError(Num(404), Str("Not Found"), Undefined),
      createError(Num(404), Str("Not Found"), PlainError("db down")),
      createError(Num(200), Str("OK"), Undefined),
      createError(Undefined, Str("no code"), Undefined) }

\* Values and failures of a sequence (an Observable) the handler returns:
\* its i-th value is the string "v<i>".
SeqValue(i) == Str("v" \o NatToStr(i))
SeqErrors == { PlainError("boom") }

\* Values the handler returns after ending the response itself.
ManualValues == { Undefined, Str("hi") }

NoOutcome == [kind |-> "none", value |-> Undefined, manual |-> FALSE]
Returned(v, manual) == [kind |-> "return", value |-> v, manual |-> manual]
Threw(e) == [kind |-> "throw", value |-> e, manual |-> FALSE]
ReturnedObservable == [kind |-> "observable", value |-> Undefined, manual |-> FALSE]

-----------------------------------------------------------------------------
(* The pipeline *)

\* map(val => [{ req, res }, null, val]) and catchError(err => of([.., err, null]))
ValueTriple(r, v) == [ev |-> r, err |-> Null, val |-> v]
ErrorTriple(r, e) == [ev |-> r, err |-> e, val |-> Null]

Untouched(h) == [res |-> h, threw |-> FALSE, log |-> << >>]

\* Mutant: the test of err is inverted, so a value is handled as a failure.
SubscriberErrInverted(h, triple, dev) ==
    IF ~Truthy(triple.err) THEN
        LET x == sendResponse(h, prepareErrorResponse(triple.err), dev)
        IN  [res |-> x.res, threw |-> x.threw,
             log |-> << [stack |-> LoggedFor(triple.err), at |-> Len(h.calls)] >>]
    ELSE IF triple.val # Undefined THEN
        IF ThrowsOnRead(triple.val) THEN [Untouched(h) EXCEPT !.threw = TRUE]
        ELSE LET x == sendResponse(h, prepareResponse(triple.val), dev)
             IN  [res |-> x.res, threw |-> x.threw, log |-> << >>]
    ELSE Untouched(h)

\* The subscriber listen installs (lines 155-162), applied to handle h.
\* log: what prepareErrorResponse wrote to console.error, with the number of
\* calls made on the handle before it.
Subscriber(h, triple, dev) ==
    IF Truthy(triple.err) THEN
        LET x == sendResponse(h, prepareErrorResponse(triple.err), dev)
        IN  [res |-> x.res, threw |-> x.threw,
             log |-> << [stack |-> LoggedFor(triple.err), at |-> Len(h.calls)] >>]
    ELSE IF triple.val # Undefined THEN
        IF ThrowsOnRead(triple.val) THEN [Untouched(h) EXCEPT !.threw = TRUE]
        ELSE LET x == sendResponse(h, prepareResponse(triple.val), dev)
             IN  [res |-> x.res, threw |-> x.threw, log |-> << >>]
    ELSE Untouched(h)

\* The multicast subject passes a triple on: to the observers of the pipeline
\* handle, and to the subscriber of listen while it is subscribed.  A throw in
\* the subscriber unsubscribes it and is reported to the host.
Emit(r, triple, h) ==
    LET s == IF subscribed THEN Subscriber(h, triple, DEV) ELSE Untouched(h)
    IN  /\ triples' = [triples EXCEPT ![r] = Append(@, triple)]
        /\ res' = [res EXCEPT ![r] = s.res]
        /\ errlog' = [errlog EXCEPT ![r] = @ \o s.log]
        /\ subscribed' = (subscribed /\ ~s.threw)
        /\ uncaught' = IF s.threw THEN uncaught + 1 ELSE uncaught
        /\ lastHeard' = observers
        /\ late' = [late EXCEPT ![r] = @ \/ server = "closed"]

\* Mutant: the pipeline completes as soon as the source has completed.
DrainedAtClose(srv, inn) == srv = "closed"

\* mergeMap completes once the source has completed and no inner is active.
Drained(srv, inn) == srv = "closed" /\ \A r \in Requests : inn[r] # "open"

\* Mutant: the completion of mergeMap is not passed on to the observers.
CompleteUnheard(srv, inn) ==
    /\ completed' = Drained(srv, inn)
    /\ termHeard' = termHeard

\* The subject completes when mergeMap does, and tells its observers.
Complete(srv, inn) ==
    /\ completed' = Drained(srv, inn)
    /\ termHeard' = IF Drained(srv, inn) THEN observers ELSE termHeard

Init ==
    /\ DEV \in BOOLEAN
    /\ server = "new"
    /\ servers = 0
    /\ errored = FALSE
    /\ observers = 0
    /\ lastHeard = 0
    /\ termHeard = 0
    /\ late = [r \in Requests |-> FALSE]
    /\ accepted = 0
    /\ outcome = [r \in Requests |-> NoOutcome]
    /\ inner = [r \in Requests |-> "none"]
    /\ emitted = [r \in Requests |-> << >>]
    /\ triples = [r \in Requests |-> << >>]
    /\ res = [r \in Requests |-> NewResponse]
    /\ errlog = [r \in Requests |-> << >>]
    /\ subscribed = TRUE
    /\ uncaught = 0
    /\ completed = FALSE

\* listen(port): connect() subscribes the source, which creates the server
\* and starts listening; then the subscriber of lines 155-162 subscribes.
ListenOk ==
    /\ server = "new"
    /\ server' = "listening"
    /\ servers' = servers + 1
    /\ UNCHANGED <<DEV, errored, observers, lastHeard, termHeard, late,
                   accepted, outcome, inner, emitted, triples, res, errlog,
                   subscribed, uncaught, completed>>

\* createServer (made = 0) or server.listen (made = 1) throws inside the try
\* block: observer.error(err) reaches the subject during connect(), before
\* anything has subscribed to it (line 154 runs before line 155).
ListenThrows(made) ==
    /\ server = "new"
    /\ server' = "failed"
    /\ servers' = servers + made
    /\ errored' = TRUE
    /\ termHeard' = observers
    /\ UNCHANGED <<DEV, observers, lastHeard, late, accepted, outcome,
                   inner, emitted, triples, res, errlog, subscribed, uncaught,
                   completed>>

\* The bind fails after listen returned (EADDRINUSE): the server emits
\* 'error', which nothing listens to, so it is thrown in the host.
ListenErrorEvent ==
    /\ server = "new"
    /\ server' = "failed"
    /\ servers' = servers + 1
    /\ uncaught' = uncaught + 1
    /\ UNCHANGED <<DEV, errored, observers, lastHeard, termHeard, late,
                   accepted, outcome, inner, emitted, triples, res, errlog,
                   subscribed, completed>>

\* Mutant: the handle is cold, each subscription runs the source again.
SubscribeCold ==
    /\ server # "new"
    /\ observers < MaxObs
    /\ observers' = observers + 1
    /\ servers' = servers + 1
    /\ UNCHANGED <<DEV, server, errored, lastHeard, termHeard, late,
                   accepted, outcome, inner, emitted, triples, res, errlog,
                   subscribed, uncaught, completed>>

\* An external observer subscribes to the handle listen returned (line 164):
\* it joins the subject, or a fresh one if the subject has stopped; the
\* source is not subscribed again.
Subscribe ==
    /\ server # "new"
    /\ observers < MaxObs
    /\ observers' = observers + 1
    /\ UNCHANGED <<DEV, server, servers, errored, lastHeard, termHeard,
                   late, accepted, outcome, inner, emitted, triples, res,
                   errlog, subscribed, uncaught, completed>>

\* Mutant: Request Events are handled one at a time (concatMap).
AcceptingSerial(r) ==
    /\ server = "listening"
    /\ \A q \in Requests : inner[q] # "open"
    /\ r = accepted + 1
    /\ r \in Requests
    /\ accepted' = r

\* The server emits the next Request Event (line 18) and the handler is invoked.
Accepting(r) ==
    /\ server = "listening"
    /\ r = accepted + 1
    /\ r \in Requests
    /\ accepted' = r

\* The handler returns v, not an Observable: of(v) emits v and completes.
HandlerReturns(r, v, manual) ==
    /\ Accepting(r)
    /\ outcome' = [outcome EXCEPT ![r] = Returned(v, manual)]
    /\ inner' = [inner EXCEPT ![r] = "done"]
    /\ Emit(r, ValueTriple(r, v), IF manual THEN HandlerEnded(res[r]) ELSE res[r])
    /\ UNCHANGED <<DEV, server, servers, errored, observers, termHeard,
                   emitted, completed>>

\* The handler throws e: throwError(e), caught by catchError.
HandlerThrows(r, e) ==
    /\ Accepting(r)
    /\ outcome' = [outcome EXCEPT ![r] = Threw(e)]
    /\ inner' = [inner EXCEPT ![r] = "done"]
    /\ Emit(r, ErrorTriple(r, e), res[r])
    /\ UNCHANGED <<DEV, server, servers, errored, observers, termHeard,
                   emitted, completed>>

\* The handler returns an Observable, which mergeMap subscribes to.
HandlerReturnsObservable(r) ==
    /\ Accepting(r)
    /\ outcome' = [outcome EXCEPT ![r] = ReturnedObservable]
    /\ inner' = [inner EXCEPT ![r] = "open"]
    /\ UNCHANGED <<DEV, server, servers, errored, observers, lastHeard,
                   termHeard, late, emitted, triples, res, errlog,
                   subscribed, uncaught, completed>>

\* The handler's Observable emits v.
InnerNext(r, v) ==
    /\ inner[r] = "open"
    /\ Len(emitted[r]) < MaxSeq
    /\ emitted' = [emitted EXCEPT ![r] = Append(@, v)]
    /\ Emit(r, ValueTriple(r, v), res[r])
    /\ UNCHANGED <<DEV, server, servers, errored, observers, termHeard,
                   accepted, outcome, inner, completed>>

\* The handler's Observable completes.
InnerComplete(r) ==
    /\ inner[r] = "open"
    /\ inner' = [inner EXCEPT ![r] = "done"]
    /\ Complete(server, inner')
    /\ UNCHANGED <<DEV, server, servers, errored, observers, lastHeard,
                   late, accepted, outcome, emitted, triples, res, errlog,
                   subscribed, uncaught>>

\* The handler's Observable fails with e, caught by catchError.
InnerError(r, e) ==
    /\ inner[r] = "open"
    /\ inner' = [inner EXCEPT ![r] = "done"]
    /\ Emit(r, ErrorTriple(r, e), res[r])
    /\ Complete(server, inner')
    /\ UNCHANGED <<DEV, server, servers, errored, observers, accepted,
                   outcome, emitted>>

\* A stream piped into the handle delivers its bytes and ends the response.
PipeFlush(r) ==
    /\ res[r].pipe # Undefined
    /\ res' = [res EXCEPT ![r] =
                 IF @.finished THEN [@ EXCEPT !.pipe = Undefined]
                 ELSE [@ EXCEPT !.pipe = Undefined,
                                !.headersSent = TRUE,
                                !.finished = TRUE,
                                !.body = @ \o res[r].pipe.s]]
    /\ UNCHANGED <<DEV, server, servers, errored, observers, lastHeard,
                   termHeard, late, accepted, outcome, inner, emitted,
                   triples, errlog, subscribed, uncaught, completed>>

\* The server closes (line 19): the request source completes.
Close ==
    /\ server = "listening"
    /\ server' = "closed"
    /\ Complete(server', inner)
    /\ UNCHANGED <<DEV, servers, errored, observers, lastHeard, late,
                   accepted, outcome, inner, emitted, triples, res, errlog,
                   subscribed, uncaught>>

Next ==
    \/ ListenOk
    \/ \E made \in {0, 1} : ListenThrows(made)
    \/ ListenErrorEvent
    \/ \E r \in Requests, v \in ReturnValues : HandlerReturns(r, v, FALSE)
    \/ \E r \in Requests, v \in ManualValues : HandlerReturns(r, v, TRUE)
    \/ \E r \in Requests, e \in ThrownValues : HandlerThrows(r, e)
    \/ \E r \in Requests : HandlerReturnsObservable(r)
    \/ \E r \in Requests : InnerNext(r, SeqValue(Len(emitted[r]) + 1))
    \/ \E r \in Requests : InnerComplete(r)
    \/ \E r \in Requests, e \in SeqErrors : InnerError(r, e)
    \/ \E r \in Requests : PipeFlush(r)
    \/ Close

\* The pipeline with nothing but the subscriber of listen on the handle.
Spec == Init /\ [][Next]_vars

\* The pipeline with external observers on the handle, and a handler that
\* returns 'hi', throws an error or returns a sequence of at most one value.
ObservedNext ==
    \/ ListenOk
    \/ \E made \in {0, 1} : ListenThrows(made)
    \/ ListenErrorEvent
    \/ Subscribe
    \/ \E r \in Requests : HandlerReturns(r, Str("hi"), FALSE)
    \/ \E r \in Requests : HandlerThrows(r, PlainError("boom"))
    \/ \E r \in Requests : HandlerReturnsObservable(r)
    \/ \E r \in Requests : emitted[r] = << >> /\ InnerNext(r, SeqValue(1))
    \/ \E r \in Requests : InnerComplete(r)
    \/ \E r \in Requests, e \in SeqErrors : InnerError(r, e)
    \/ Close

SpecObserved == Init /\ [][ObservedNext]_vars

-----------------------------------------------------------------------------
(* Properties *)

Count(seq, x) == Cardinality({i \in 1..Len(seq) : seq[i] = x})

\* No request other than r has produced anything yet.
Quiet(r) == \A q \in Requests \ {r} : triples[q] = << >>

\* The pipeline has called into the handle of request r.
Written(r) == res[r].calls # << >>

\* C1: every Request Event, whatever its handler does (value, throw, a
\* sequence of 0, 1 or several values, a sequence that emits and then fails),
\* gets exactly one triple, (event, null, value) or (event, error, null):
\* never two, and one once its handling is over.
C1_ExactlyOneTriple ==
    \A r \in Requests :
        /\ Len(triples[r]) <= 1
        /\ inner[r] = "done" => Len(triples[r]) = 1
        /\ \A i \in 1..Len(triples[r]) :
              /\ triples[r][i].ev = r
              /\ triples[r][i].err = Null \/ triples[r][i].val = Null

\* C2: when the handler's sequence has emitted v1..vn (n >= 1) and completed,
\* the response was written once, with the serialization of vn.
C2_OnlyLastValueWritten ==
    \A r \in Requests :
        ( /\ Quiet(r)
          /\ outcome[r].kind = "observable"
          /\ inner[r] = "done"
          /\ Len(emitted[r]) >= 1
          /\ Len(triples[r]) = Len(emitted[r]) )
        => /\ Count(res[r].calls, "statusCode") = 1
           /\ Count(res[r].calls, "end") = 1
           /\ res[r].body = emitted[r][Len(emitted[r])].s

\* C3: when the handler returns a promise, the request's triple carries the
\* settled value (fulfilled with v: (event, null, v) and v is the body;
\* rejected with e: (event, e, null) and an error response): the promise
\* object itself is never what is serialized.
C3_PromiseSettledValueUsed ==
    \A r \in Requests :
        (Quiet(r) /\ outcome[r].kind = "return" /\ outcome[r].value.t = "Promise")
        => LET p == outcome[r].value
           IN  IF p.state = "fulfilled"
               THEN /\ triples[r] = << ValueTriple(r, p.value) >>
                    /\ res[r].body = p.value.s
               ELSE /\ triples[r] = << ErrorTriple(r, p.value) >>
                    /\ res[r].statusCode = Num(500)
                    /\ res[r].body = InternalServerError

\* C4: any value the handler throws that is not an Error Descriptor, falsy
\* ones included, gives status 500 and the body "Internal Server Error".
C4_ThrownValueGives500 ==
    \A r \in Requests :
        ( /\ Quiet(r)
          /\ outcome[r].kind = "throw"
          /\ outcome[r].value.t # "ResponseError" )
        => /\ res[r].finished
           /\ res[r].statusCode = Num(500)
           /\ res[r].body = InternalServerError

\* C5: the response written for a request whose handler threw
\* createError(c, m) has status exactly c and body exactly m.
C5_DescriptorPassedThrough ==
    \A r \in Requests :
        ( /\ outcome[r].kind = "throw"
          /\ outcome[r].value.t = "ResponseError"
          /\ outcome[r].value.statusCode # Undefined
          /\ Written(r) )
        => /\ res[r].finished
           /\ res[r].statusCode = outcome[r].value.statusCode
           /\ res[r].body = outcome[r].value.message

\* A thrown createError(404, "Not Found") was answered with 404 "Not Found".
C5_Witness ==
    \E r \in Requests :
        /\ outcome[r] = Threw(createError(Num(404), Str("Not Found"), Undefined))
        /\ res[r].finished
        /\ res[r].statusCode = Num(404)
        /\ res[r].body = "Not Found"

Is2xx(code) == code.t = "number" /\ code.n \in 200..299

\* C6: an Error Descriptor created without a status code is answered with
\* status 500, and error mapping gives a 2xx status only when the caller
\* supplied that code.
C6_DescriptorCodeDefaults500 ==
    \A r \in Requests :
        ( /\ Quiet(r)
          /\ outcome[r].kind = "throw"
          /\ outcome[r].value.t = "ResponseError" )
        => /\ outcome[r].value.statusCode = Undefined
              => res[r].statusCode = Num(500)
           /\ Is2xx(res[r].statusCode)
              => res[r].statusCode = outcome[r].value.statusCode

\* The handling of request r failed in one of the ways C7 names: the handler
\* threw an error, its sequence failed, or its value cannot be serialized.
Failed(r) ==
    \/ outcome[r] = Threw(PlainError("boom"))
    \/ outcome[r] = Returned(Circular, FALSE)
    \/ /\ outcome[r].kind = "observable"
       /\ inner[r] = "done"
       /\ triples[r] # << >>
       /\ triples[r][Len(triples[r])].err # Null

\* C7: after a request whose processing failed, the pipeline stays subscribed,
\* nothing reaches the process as an uncaught exception, and a later request
\* still gets its response written.
C7_FailureIsolated ==
    \A r, q \in Requests :
        ( /\ r < q
          /\ Failed(r)
          /\ outcome[q] = Returned(Str("hi"), FALSE)
          /\ \A p \in Requests \ {r, q} : outcome[p] = NoOutcome )
        => /\ subscribed
           /\ uncaught = 0
           /\ res[q].finished
           /\ res[q].body = "hi"

\* C8: a null result, bare or as the data of send(null, c, h), ends the
\* response with the status (200, or c), an empty body and no Content-Type.
C8_NullEndsWithoutBody ==
    \A r \in Requests :
        ( /\ Quiet(r)
          /\ outcome[r].kind = "return"
          /\ ~outcome[r].manual
          /\ \/ outcome[r].value = Null
             \/ /\ outcome[r].value.t = "Response"
                /\ outcome[r].value.data = Null )
        => /\ res[r].finished
           /\ res[r].statusCode =
                 IF outcome[r].value = Null THEN Num(200)
                 ELSE outcome[r].value.statusCode
           /\ res[r].body = ""
           /\ GetHeader(res[r], "Content-Type") = Undefined

\* C9: when the handler's value is undefined the pipeline does nothing to the
\* response handle, which stays exactly as the handler left it.
C9_UndefinedLeavesHandle ==
    \A r \in Requests :
        (outcome[r].kind = "return" /\ outcome[r].value = Undefined)
        => res[r] = IF outcome[r].manual THEN HandlerEnded(NewResponse)
                    ELSE NewResponse

\* The handler ended the response with "manual" and returned undefined, while
\* the subscriber was live: the client has exactly "manual".
C9_Witness ==
    \E r \in Requests :
        /\ outcome[r] = Returned(Undefined, TRUE)
        /\ subscribed
        /\ res[r].body = ManualBody
        /\ res[r].calls = << >>

\* C10: each falsy result other than undefined (null, 0, false, '') is
\* written with status 200 and the response ended exactly once.
C10_FalsyValuesSent ==
    \A r \in Requests :
        ( /\ Quiet(r)
          /\ outcome[r].kind = "return"
          /\ ~outcome[r].manual
          /\ outcome[r].value \in {Null, Num(0), Bool(FALSE), Str("")} )
        => /\ res[r].finished
           /\ res[r].statusCode = Num(200)
           /\ Count(res[r].calls, "end") = 1

\* C11: when server construction or bind/listen has failed, the subject of
\* the pipeline handle got that failure as its terminal error, every observer
\* subscribed to the handle has received it, and no triple was produced.
C11_BindFailureDelivered ==
    server = "failed"
    => /\ errored
       /\ termHeard = observers
       /\ \A r \in Requests : triples[r] = << >>

\* C12: when the server closes with no request in flight the sequence
\* completes in that step; the step that completes it raises no error and
\* tells every observer subscribed to the handle; and once the server has
\* closed no further Request Event is emitted or handed to the handler.
C12_CloseCompletes ==
    [][ /\ ( /\ server = "listening"
             /\ server' = "closed"
             /\ \A r \in Requests : inner[r] # "open" )
           => completed'
        /\ (~completed /\ completed')
           => /\ ~errored'
              /\ termHeard' = observers'
        /\ server = "closed"
           => /\ server' = "closed"
              /\ accepted' = accepted
              /\ outcome' = outcome ]_vars

\* The server closed after one request, with an observer on the handle: the
\* observer was told of the completion, no error was raised, and the second
\* request was never dispatched.
C12_Witness ==
    /\ server = "closed"
    /\ completed
    /\ ~errored
    /\ observers >= 1
    /\ termHeard = observers
    /\ accepted = 1
    /\ outcome[2] = NoOutcome

\* C13: while the sequence of request r is still open, the next request q the
\* listening server accepts can be dispatched at once, and its handling emits
\* its triple and (the subscriber being live) writes and ends its response,
\* with r still open: an unfinished request holds back no later one.
C13_RequestsIndependent ==
    \A r, q \in Requests :
        ( /\ inner[r] = "open"
          /\ server = "listening"
          /\ q = accepted + 1
          /\ subscribed )
        => ENABLED ( /\ HandlerReturns(q, Str("hi"), FALSE)
                     /\ triples'[q] = << ValueTriple(q, Str("hi")) >>
                     /\ res'[q].finished
                     /\ res'[q].body = "hi"
                     /\ inner'[r] = "open" )

\* Request 2 has its triple and its response while request 1, accepted before
\* it, is still open and has produced no triple: triples out of arrival order.
C13_Witness ==
    /\ inner[1] = "open"
    /\ triples[1] = << >>
    /\ triples[2] = << ValueTriple(2, Str("hi")) >>
    /\ res[2].finished
    /\ res[2].body = "hi"

\* C14: a returned binary buffer, readable stream, plain object, number,
\* string or boolean is answered with status 200 and its type's
\* serialization: the bytes (application/octet-stream, Content-Length), the
\* piped stream (application/octet-stream, no Content-Length), the JSON text
\* (application/json; charset=utf-8), or the primitive as-is with the
\* Content-Length of its bytes.
C14_TypedSerialization ==
    \A r \in Requests :
        ( /\ Quiet(r)
          /\ outcome[r].kind = "return"
          /\ ~outcome[r].manual
          /\ outcome[r].value.t \in
                {"Buffer", "Stream", "Object", "number", "string", "boolean"} )
        => LET v == outcome[r].value
               h == res[r]
           IN  /\ h.statusCode = Num(200)
               /\ GetHeader(h, "X-Custom") = Undefined
               /\ CASE v.t = "Buffer" ->
                         /\ h.finished /\ h.body = v.s
                         /\ GetHeader(h, "Content-Type")
                               = Str("application/octet-stream")
                         /\ GetHeader(h, "Content-Length") = Num(Len(v.s))
                    [] v.t = "Stream" ->
                         /\ h.pipe = v \/ (h.finished /\ h.body = v.s)
                         /\ GetHeader(h, "Content-Type")
                               = Str("application/octet-stream")
                         /\ GetHeader(h, "Content-Length") = Undefined
                    [] v.t \in {"Object", "number"} ->
                         /\ h.finished /\ h.body = JSONStringify(v, DEV).s
                         /\ GetHeader(h, "Content-Type")
                               = Str("application/json; charset=utf-8")
                    [] v.t = "string" ->
                         /\ h.finished /\ h.body = v.s
                         /\ GetHeader(h, "Content-Length") = Num(ByteLength(v.s))
                    [] v.t = "boolean" ->
                         /\ h.finished
                         /\ h.body = (IF v.b THEN "true" ELSE "false")
                         /\ GetHeader(h, "Content-Length")
                               = Num(IF v.b THEN 4 ELSE 5)

\* Two thrown values that differ at most in the original cause: two plain
\* errors, or two Error Descriptors with the same code and message.
SameButCause(a, b) ==
    \/ a.t = "Error" /\ b.t = "Error"
    \/ /\ a.t = "ResponseError" /\ b.t = "ResponseError"
       /\ a.statusCode = b.statusCode
       /\ a.message = b.message

\* C15: the responses written for two requests whose handlers threw values
\* that differ only in the original cause have the same status, the same
\* headers and the same body.
C15_CauseNeverSent ==
    \A r, q \in Requests :
        ( /\ outcome[r].kind = "throw"
          /\ outcome[q].kind = "throw"
          /\ SameButCause(outcome[r].value, outcome[q].value)
          /\ Written(r)
          /\ Written(q) )
        => /\ res[r].statusCode = res[q].statusCode
           /\ res[r].headers = res[q].headers
           /\ res[r].body = res[q].body

\* Two handlers threw different plain errors: both causes were logged, and
\* the two clients got the same 500 "Internal Server Error".
C15_Witness ==
    /\ outcome[1] = Threw(PlainError("boom"))
    /\ outcome[2] = Threw(PlainError("db down"))
    /\ errlog[1] # errlog[2]
    /\ res[1].finished
    /\ res[2].finished
    /\ res[1].body = InternalServerError
    /\ res[2].body = InternalServerError

\* C16: the serializer writes the same response from send(d, c, h) as from
\* the bare record {data: d, statusCode: c, headers: h}; and a request whose
\* handler returned send(d) has the same status, headers and body as one
\* whose handler returned d itself, status 200 with no explicit header.
C16_SendEqualsBare ==
    /\ \A v \in ReturnValues :
          isResponseObject(v)
          => sendResponse(NewResponse,
                          [data |-> v.data, statusCode |-> v.statusCode,
                           headers |-> v.headers], DEV)
               = sendResponse(NewResponse, v, DEV)
    /\ \A r, q \in Requests :
          ( /\ outcome[r].kind = "return"
            /\ outcome[q].kind = "return"
            /\ ~outcome[r].manual
            /\ ~outcome[q].manual
            /\ outcome[q].value # Undefined
            /\ outcome[r].value = send(outcome[q].value, Undefined, NoHeaders) )
          => /\ res[r].statusCode = Num(200)
             /\ GetHeader(res[r], "X-Custom") = Undefined
             /\ res[r].finished = res[q].finished
             /\ res[r].statusCode = res[q].statusCode
             /\ res[r].headers = res[q].headers
             /\ res[r].body = res[q].body

\* The value descriptor v gives header n, undefined when it does not set it.
Explicit(v, n) ==
    IF \E i \in 1..Len(v.headers) : v.headers[i][1] = n
    THEN v.headers[CHOOSE i \in 1..Len(v.headers) : v.headers[i][1] = n][2]
    ELSE Undefined

\* The Content-Type the serializer defaults to for data d, undefined if none.
TypeDefault(d) ==
    CASE d.t \in {"Buffer", "Stream"} -> Str("application/octet-stream")
      [] TypeOf(d) \in {"object", "number"} ->
            Str("application/json; charset=utf-8")
      [] OTHER -> Undefined

\* The pipeline has written the returned descriptor of request r, whose data
\* is not null, to a handle the handler left untouched.
DescriptorWritten(r) ==
    /\ outcome[r].kind = "return"
    /\ ~outcome[r].manual
    /\ isResponseObject(outcome[r].value)
    /\ outcome[r].value.data # Null
    /\ res[r].finished \/ res[r].pipe # Undefined

\* C17 as stated: every header a descriptor with non-null data sets, Content-Type
\* and Content-Length included, has the descriptor's value on the response
\* when it is ended or piped.
C17_ExplicitHeadersKept ==
    \A r \in Requests :
        DescriptorWritten(r)
        => \A n \in HeaderNames :
              Explicit(outcome[r].value, n) # Undefined
              => GetHeader(res[r], n) = Explicit(outcome[r].value, n)

\* C17, amended: a header the descriptor sets is kept, except that
\* Content-Length is always the byte length of the body written (for data
\* that is not a stream) and an empty Content-Type gives way to the type's
\* default; a header the descriptor does not set is left unset or, for
\* Content-Type, gets the type's default.
C17_HeadersKeptButLength ==
    \A r \in Requests :
        DescriptorWritten(r)
        => LET v == outcome[r].value
           IN  \A n \in HeaderNames :
                  GetHeader(res[r], n) =
                     IF n = "Content-Length" /\ v.data.t # "Stream"
                     THEN Num(ByteLength(res[r].body))
                     ELSE IF n = "Content-Type" /\ ~Truthy(Explicit(v, n))
                     THEN TypeDefault(v.data)
                     ELSE Explicit(v, n)

\* A descriptor with object data, Content-Type text/plain and Content-Length
\* '99' was written: the Content-Type is still text/plain, the Content-Length
\* is the length of the JSON text.
C17_Witness ==
    \E r \in Requests :
        /\ DescriptorWritten(r)
        /\ Explicit(outcome[r].value, "Content-Length") = Str("99")
        /\ GetHeader(res[r], "Content-Type") = Str("text/plain")
        /\ GetHeader(res[r], "X-Custom") = Str("1")
        /\ GetHeader(res[r], "Content-Length") = Num(ByteLength(res[r].body))
        /\ res[r].body = JSONStringify(PlainObject, DEV).s

\* The handling of request r failed: its handler threw, or its sequence failed.
FailedRequest(r) ==
    \/ outcome[r].kind = "throw"
    \/ /\ outcome[r].kind = "observable"
       /\ \E i \in 1..Len(triples[r]) : triples[r][i].err # Null

\* C18: for every failed request a diagnostic entry was logged, and it was
\* logged before the pipeline made any call on the request's response handle.
C18_LoggedBeforeWrite ==
    \A r \in Requests :
        (Quiet(r) /\ FailedRequest(r))
        => /\ errlog[r] # << >>
           /\ errlog[r][1].at = 0

\* C19: listen creates at most one server; the handler is invoked once per
\* Request Event; each triple is passed to every observer subscribed to the
\* handle; and a step that adds an observer creates no server, invokes no
\* handler, emits no triple and writes to no response.
C19_HotSharedSequence ==
    [][ /\ servers' <= 1
        /\ \A r \in Requests :
              /\ outcome[r] # NoOutcome => outcome'[r] = outcome[r]
              /\ triples'[r] # triples[r] => lastHeard' = observers
              /\ res'[r] # res[r] => triples'[r] # triples[r]
        /\ observers' # observers
           => UNCHANGED <<server, servers, accepted, outcome, inner, emitted,
                          triples, res, errlog, subscribed, uncaught>> ]_vars

\* With an observer on the handle, a request was handled: one server, one
\* invocation, one triple, heard by the observer, and one response.
C19_Witness ==
    /\ observers >= 1
    /\ lastHeard = observers
    /\ servers = 1
    /\ accepted = 1
    /\ outcome[1] = Returned(Str("hi"), FALSE)
    /\ triples[1] = << ValueTriple(1, Str("hi")) >>
    /\ Count(res[1].calls, "end") = 1
    /\ res[1].body = "hi"

\* C20: the handle has completed exactly when the server has closed and no
\* sequence is open any more; and a sequence still open after the close can
\* emit its value, whose triple is then passed on and whose response is
\* written and ended (the subscriber being live).
C20_InFlightNotDropped ==
    /\ completed <=> (server = "closed" /\ \A r \in Requests : inner[r] # "open")
    /\ \A r \in Requests :
          ( /\ server = "closed"
            /\ inner[r] = "open"
            /\ emitted[r] = << >>
            /\ subscribed )
          => ENABLED ( /\ InnerNext(r, SeqValue(1))
                       /\ triples'[r] = << ValueTriple(r, SeqValue(1)) >>
                       /\ late'[r]
                       /\ res'[r].finished
                       /\ res'[r].body = SeqValue(1).s
                       /\ ~completed' )

\* A request in flight when the server closed produced its triple after the
\* close and had its response written, and then the handle completed.
C20_Witness ==
    \E r \in Requests :
        /\ late[r]
        /\ triples[r] = << ValueTriple(r, SeqValue(1)) >>
        /\ res[r].finished
        /\ res[r].body = SeqValue(1).s
        /\ inner[r] = "done"
        /\ completed

====
